---- MODULE Spec2Model ----
(***************************************************************************)
(* EditorInput (src/vs/workbench/common/editor/editorInput.ts): the        *)
(* disposal state machine, the four notification channels, capability      *)
(* queries, the matches() protocol, the default operations and the text    *)
(* getters.                                                                *)
(*                                                                         *)
(* JavaScript is single-threaded and calls are synchronous, so the model   *)
(* keeps a call stack: an operation called from the event loop needs an    *)
(* empty stack, an observer runs on top of the delivery that invokes it,   *)
(* and only the frame on top of the stack can take a step.                 *)
(***************************************************************************)
EXTENDS Integers, Sequences, FiniteSets, TLC

\* ------------------------------------------------------------------ bounds
MaxHandles == 2
MaxFires == 2
MaxDisposeCalls == 2
MaxPending == 1
MaxAsyncCalls == 2
MaxEditors == 4
CapBits == 4

\* --------------------------------------------------------------- constants
Undefined == "undefined"

\* EditorInputCapabilities (vs/workbench/common/editor): a bit-flag set with
\* the zero sentinel None and named bits.
None == 0
Readonly == 2

Masks == 0 .. (2 ^ CapBits - 1)

\* The four emitters the class registers, and the public events over them.
Emitters ==
  {"_onDidChangeDirty", "_onDidChangeLabel", "_onDidChangeCapabilities", "_onWillDispose"}

Events ==
  {"onDidChangeDirty", "onDidChangeLabel", "onDidChangeCapabilities", "onWillDispose"}

\* What a subclass toggles, and the channel each toggle is announced on.
Toggles == {"dirty", "label", "capabilities"}

ToggleEvent(t) ==
  CASE t = "dirty" -> "onDidChangeDirty"
    [] t = "label" -> "onDidChangeLabel"
    [] t = "capabilities" -> "onDidChangeCapabilities"

\* A subclass announces a toggle with this._onDidChange<X>.fire().
ToggleEmitter(t) ==
  CASE t = "dirty" -> "_onDidChangeDirty"
    [] t = "label" -> "_onDidChangeLabel"
    [] t = "capabilities" -> "_onDidChangeCapabilities"

\* A wiring slip: the dirty and label events exposed over each other's emitter.
EmitterOfCrossed(ev) ==
  CASE ev = "onDidChangeDirty" -> "_onDidChangeLabel"
    [] ev = "onDidChangeLabel" -> "_onDidChangeDirty"
    [] ev = "onDidChangeCapabilities" -> "_onDidChangeCapabilities"
    [] ev = "onWillDispose" -> "_onWillDispose"

\* readonly onDidChangeX = this._onDidChangeX.event
EmitterOf(ev) ==
  CASE ev = "onDidChangeDirty" -> "_onDidChangeDirty"
    [] ev = "onDidChangeLabel" -> "_onDidChangeLabel"
    [] ev = "onDidChangeCapabilities" -> "_onDidChangeCapabilities"
    [] ev = "onWillDispose" -> "_onWillDispose"

\* Resources a subclass may add with this._register(...).
SubclassResources == {"subclassResource"}

\* ------------------------------------------------------------------- state
VARIABLES
  disposed,        \* private disposed: boolean
  registered,      \* Disposable._store: what _register() was given
  storeDisposed,   \* Disposable._store has been disposed
  emDisposed,      \* per emitter: released
  listeners,       \* per emitter: the subscribed handles, in subscription order
  handles,         \* handle h was returned by subscribing to event handles[h]
  releasedHandles, \* handles whose dispose() was called
  stack,           \* the call stack, top last
  disposeCalls,    \* dispose() calls begun so far
  firedBy,         \* which dispose() call fired will-dispose (0: none)
  fireCount,       \* per emitter: fire() calls so far
  calls,           \* per handle: times the observer was invoked
  due,             \* per handle: fires begun while it was subscribed
  willSnapshot,    \* will-dispose subscribers when dispose() first ran
  lastFire,        \* the fire() that returned last
  inputs,          \* per instance: what its subclass answers for typeId, editorId, resource
  peerDisposed,    \* isDisposed() of the second instance
  capabilities,    \* what the capabilities getter answers
  lastCall,        \* the last query or default operation, with its result
  pending,         \* promises of default operations not yet delivered, oldest first
  asyncCalls,      \* async default operations called so far
  editors,         \* the caller's array of editor panes, as prefersEditor() is given it
  nameOverride     \* what a subclass overriding getName() answers (undefined: no override)

vars ==
  <<disposed, registered, storeDisposed, emDisposed, listeners, handles,
    releasedHandles, stack, disposeCalls, firedBy, fireCount, calls, due,
    willSnapshot, lastFire, inputs, peerDisposed, capabilities, lastCall,
    pending, asyncCalls, editors, nameOverride>>

\* Variables of the lifecycle and the notification bus, by group.
lifeVars == <<disposed, disposeCalls, firedBy, willSnapshot>>
storeVars == <<registered, storeDisposed, emDisposed>>
handleVars == <<handles, releasedHandles>>
callerVars == <<editors, nameOverride>>
queryVars == <<inputs, peerDisposed, capabilities, lastCall, pending, asyncCalls, callerVars>>

\* ----------------------------------------------------------------- helpers
Remove(s, h) == SelectSeq(s, LAMBDA x : x # h)

IsPrefix(s, t) == Len(s) <= Len(t) /\ SubSeq(t, 1, Len(s)) = s

Top == stack[Len(stack)]

Pop(s) == SubSeq(s, 1, Len(s) - 1)

NoFire == [em |-> "-", snap |-> <<>>, done |-> <<>>, cut |-> FALSE]

\* A dispose() call that has run up to (not including) super.dispose();
\* notified: this call found disposed false and fired will-dispose.
DisposeFrame(n, notified) ==
  [kind |-> "dispose", call |-> n, notified |-> notified, em |-> "-",
   snap |-> <<>>, queue |-> <<>>, done |-> <<>>, cut |-> FALSE]

\* Emitter.fire(): delivery to the listeners subscribed when it began.
FireFrame(em) ==
  [kind |-> "fire", call |-> 0, notified |-> FALSE, em |-> em,
   snap |-> listeners[em], queue |-> listeners[em], done |-> <<>>, cut |-> FALSE]

\* Handles subscribed (and not released) to the event of a live emitter.
Subscribed(ev, em) ==
  {h \in DOMAIN handles :
     handles[h] = ev /\ h \notin releasedHandles /\ ~emDisposed[em]}

\* isDisposed(): boolean
isDisposed == disposed

\* Subclass toggles announced so far.
Toggled ==
  fireCount["_onDidChangeDirty"] + fireCount["_onDidChangeLabel"]
    + fireCount["_onDidChangeCapabilities"]

\* ------------------------------------------- instances and descriptors
InstanceIds == {1, 2}

TypeIds == {"typeA", "typeB"}
EditorIds == {"custom", "other"}
Resources == {"R1", "R2"}

\* What a concrete subclass answers for the abstract typeId and resource and
\* for the overridable editorId.
InputFields ==
  [typeId : TypeIds, editorId : EditorIds \cup {Undefined},
   resource : Resources \cup {Undefined}]

\* get editorId(): string | undefined { return undefined; }
DefaultEditorId == Undefined

DefaultInputs ==
  [i \in InstanceIds |->
     [typeId |-> "typeA", editorId |-> DefaultEditorId, resource |-> "R1"]]

\* The instance with identity i, as a caller holds it.
InputOf(i) ==
  [kind |-> "typed", id |-> i, typeId |-> inputs[i].typeId,
   editorId |-> inputs[i].editorId, resource |-> inputs[i].resource,
   disposed |-> IF i = 1 THEN disposed ELSE peerDisposed]

\* IUntypedEditorInput: a plain descriptor; options and options.override
\* may each be absent, and so may the resource.
Descriptors ==
  {d \in [kind : {"untyped"}, hasOptions : BOOLEAN,
          override : EditorIds \cup {Undefined},
          resource : Resources \cup {Undefined}] :
     ~d.hasOptions => d.override = Undefined}

NoCall == [op |-> "none"]

\* ------------------------------------------------------------------- Init
\* The dirty channel created without this._register(...).
RegisteredButDirty == Emitters \ {"_onDidChangeDirty"}

\* private readonly _onX = this._register(new Emitter<void>()), four times.
RegisteredEmitters == Emitters

InitLife ==
  /\ disposed = FALSE
  /\ registered = RegisteredEmitters
  /\ storeDisposed = FALSE
  /\ emDisposed = [e \in Emitters |-> FALSE]
  /\ listeners = [e \in Emitters |-> <<>>]
  /\ handles = <<>>
  /\ releasedHandles = {}
  /\ stack = <<>>
  /\ disposeCalls = 0
  /\ firedBy = 0
  /\ fireCount = [e \in Emitters |-> 0]
  /\ calls = <<>>
  /\ due = <<>>
  /\ willSnapshot = <<>>
  /\ lastFire = NoFire
  /\ peerDisposed = FALSE
  /\ lastCall = NoCall
  /\ pending = <<>>
  /\ asyncCalls = 0

\* get capabilities() { return EditorInputCapabilities.Readonly; }
DefaultCapabilities == Readonly

\* No array of panes handed in yet, and a subclass that keeps the default
\* getName().
InitCaller ==
  /\ editors = <<>>
  /\ nameOverride = Undefined

Init ==
  /\ InitLife
  /\ InitCaller
  /\ inputs = DefaultInputs
  /\ capabilities = DefaultCapabilities

\* ------------------------------------------------- the notification bus
\* emitter.event(listener): returns a handle; a released emitter keeps none.
Subscribe(ev) ==
  /\ stack = <<>>
  /\ Len(handles) < MaxHandles
  /\ handles' = Append(handles, ev)
  /\ calls' = Append(calls, 0)
  /\ due' = Append(due, 0)
  /\ listeners' =
       IF emDisposed[EmitterOf(ev)] THEN listeners
       ELSE [listeners EXCEPT ![EmitterOf(ev)] = Append(@, Len(handles) + 1)]
  /\ UNCHANGED <<lifeVars, storeVars, releasedHandles, stack, fireCount, lastFire, queryVars>>

\* The listener lists after handle h is released: a delivery already under
\* way keeps its own snapshot.
Released(h) == [listeners EXCEPT ![EmitterOf(handles[h])] = Remove(@, h)]

Unsubscribe(h) ==
  /\ stack = <<>>
  /\ h \in DOMAIN handles
  /\ h \notin releasedHandles
  /\ releasedHandles' = releasedHandles \cup {h}
  /\ listeners' = Released(h)
  /\ UNCHANGED <<lifeVars, storeVars, handles, stack, fireCount,
                 calls, due, lastFire, queryVars>>

\* A subclass changes its dirty state, label or capabilities and fires the
\* channel.
FireToggle(t) ==
  /\ stack = <<>>
  /\ Toggled < MaxFires
  /\ fireCount' = [fireCount EXCEPT ![ToggleEmitter(t)] = @ + 1]
  /\ due' = [h \in DOMAIN due |->
               IF h \in Subscribed(ToggleEvent(t), ToggleEmitter(t))
               THEN due[h] + 1 ELSE due[h]]
  /\ stack' = <<FireFrame(ToggleEmitter(t))>>
  /\ UNCHANGED <<lifeVars, storeVars, listeners, handleVars, calls, lastFire, queryVars>>

\* ------------------------------------------------------------ dispose()
\* A guard slip: notify on every call.
ShouldNotifyAlways == TRUE

\* if (!this.disposed)
ShouldNotify == ~disposed

\* The flag left as it was when the signal is fired.
FlagLeftUnset == disposed

\* this.disposed = true, before the signal is fired.
FlagSet == TRUE

\* The signal fired on the dirty channel.
FiredOnDisposeDirty == "_onDidChangeDirty"

\* this._onWillDispose.fire()
FiredOnDispose == "_onWillDispose"

\* Handles subscribed (and not released) to emitter em while it is live.
SubscribedTo(em) ==
  {h \in DOMAIN handles :
     EmitterOf(handles[h]) = em /\ h \notin releasedHandles /\ ~emDisposed[em]}

\* dispose() up to the delivery of will-dispose, entered on top of stack stk:
\*   if (!this.disposed) { this.disposed = true; this._onWillDispose.fire(); }
EnterDispose(stk) ==
  /\ disposeCalls < MaxDisposeCalls
  /\ disposeCalls' = disposeCalls + 1
  /\ IF ShouldNotify
     THEN /\ disposed' = FlagSet
          /\ firedBy' = IF firedBy = 0 THEN disposeCalls + 1 ELSE firedBy
          /\ fireCount' = [fireCount EXCEPT ![FiredOnDispose] = @ + 1]
          /\ willSnapshot' =
               IF disposeCalls = 0 THEN listeners[FiredOnDispose] ELSE willSnapshot
          /\ due' = [h \in DOMAIN due |->
                       IF h \in SubscribedTo(FiredOnDispose)
                       THEN due[h] + 1 ELSE due[h]]
          /\ stack' = stk \o <<DisposeFrame(disposeCalls + 1, TRUE),
                                FireFrame(FiredOnDispose)>>
     ELSE /\ stack' = Append(stk, DisposeFrame(disposeCalls + 1, FALSE))
          /\ UNCHANGED <<disposed, firedBy, fireCount, willSnapshot, due>>

\* dispose() called from the event loop.
Dispose ==
  /\ stack = <<>>
  /\ EnterDispose(stack)
  /\ UNCHANGED <<storeVars, listeners, handleVars, calls, lastFire, queryVars>>

\* The stack after the delivery on top has handed the signal to its next
\* listener.
Delivering == stack # <<>> /\ Top.kind = "fire" /\ Top.queue # <<>>

Advanced ==
  [stack EXCEPT ![Len(stack)] =
     [@ EXCEPT !.queue = Tail(@), !.done = Append(@, Head(Top.queue))]]

Invoked == [calls EXCEPT ![Head(Top.queue)] = @ + 1]

\* An observer that only reads the instance.
DeliverQuiet ==
  /\ Delivering
  /\ stack' = Advanced
  /\ calls' = Invoked
  /\ UNCHANGED <<lifeVars, storeVars, listeners, handleVars, fireCount, due, lastFire, queryVars>>

\* An observer that calls dispose() on the instance.
DeliverDispose ==
  /\ Delivering
  /\ calls' = Invoked
  /\ EnterDispose(Advanced)
  /\ UNCHANGED <<storeVars, listeners, handleVars, lastFire, queryVars>>

\* An observer that releases a subscription handle (its own or another).
DeliverRelease(h) ==
  /\ Delivering
  /\ h \in DOMAIN handles
  /\ h \notin releasedHandles
  /\ stack' = Advanced
  /\ calls' = Invoked
  /\ releasedHandles' = releasedHandles \cup {h}
  /\ listeners' = Released(h)
  /\ UNCHANGED <<lifeVars, storeVars, handles, fireCount, due, lastFire, queryVars>>

\* fire() returns once every listener of its snapshot has been served.
FireReturn ==
  /\ stack # <<>>
  /\ Top.kind = "fire"
  /\ Top.queue = <<>>
  /\ lastFire' = [em |-> Top.em, snap |-> Top.snap, done |-> Top.done, cut |-> Top.cut]
  /\ stack' = Pop(stack)
  /\ UNCHANGED <<lifeVars, storeVars, listeners, handleVars, fireCount, calls, due, queryVars>>

\* Emitter.dispose() on every registered emitter, as seen by the deliveries
\* under way: a released channel serves nobody any more.
CutDeliveries(stk, ems) ==
  [i \in DOMAIN stk |->
     IF stk[i].kind = "fire" /\ stk[i].em \in ems /\ stk[i].queue # <<>>
     THEN [stk[i] EXCEPT !.queue = <<>>, !.cut = TRUE]
     ELSE stk[i]]

\* Disposable.dispose(): releases, once, everything _register() was given.
SuperDispose ==
  /\ stack # <<>>
  /\ Top.kind = "dispose"
  /\ IF storeDisposed
     THEN /\ stack' = Pop(stack)
          /\ UNCHANGED <<storeVars, listeners>>
     ELSE /\ storeDisposed' = TRUE
          /\ emDisposed' = [e \in Emitters |-> emDisposed[e] \/ e \in registered]
          /\ listeners' = [e \in Emitters |->
                             IF e \in registered THEN <<>> ELSE listeners[e]]
          /\ stack' = CutDeliveries(Pop(stack), registered \cap Emitters)
          /\ UNCHANGED registered
  /\ UNCHANGED <<lifeVars, handleVars, fireCount, calls, due, lastFire, queryVars>>

\* A subclass constructor or method: this._register(resource).
Register(r) ==
  /\ stack = <<>>
  /\ ~storeDisposed
  /\ r \notin registered
  /\ registered' = registered \cup {r}
  /\ UNCHANGED <<lifeVars, storeDisposed, emDisposed, listeners, handleVars,
                 stack, fireCount, calls, due, lastFire, queryVars>>

\* ------------------------------------------------------ hasCapability
\* c & f on non-negative integers.
RECURSIVE BitAnd(_, _)
BitAnd(a, b) ==
  IF a = 0 \/ b = 0 THEN 0
  ELSE (a % 2) * (b % 2) + 2 * BitAnd(a \div 2, b \div 2)

\* The containment test without the case for the None sentinel.
hasCapabilityNoSentinel(capability) == BitAnd(capabilities, capability) # 0

\* hasCapability(capability: EditorInputCapabilities): boolean
hasCapability(capability) ==
  IF capability = None
  THEN capabilities = None
  ELSE BitAnd(capabilities, capability) # 0

HasCapability(f) ==
  /\ stack = <<>>
  /\ lastCall' = [op |-> "hasCapability", capability |-> f,
                  mask |-> capabilities, result |-> hasCapability(f)]
  /\ UNCHANGED <<lifeVars, storeVars, listeners, handleVars, stack, fireCount,
                 calls, due, lastFire, inputs, peerDisposed, capabilities,
                 pending, asyncCalls, callerVars>>

\* ------------------------------------------------------------- matches
\* isEditorInput(editor): editor instanceof EditorInput
isEditorInput(editor) == editor.kind = "typed"

\* otherInput.options?.override; reading .override of absent options without
\* the ?. would raise a TypeError.
TypeError == "TypeError"

OptionsOverride(otherInput) ==
  IF otherInput.hasOptions THEN otherInput.override ELSE Undefined

\* EditorResourceAccessor.getCanonicalUri(untyped): the descriptor's canonical
\* resource, undefined when it carries none.
getCanonicalUri(otherInput) == otherInput.resource

\* isEqual(uri1, uri2) of vs/base/common/resources on optional locators.
isEqual(uri1, uri2) == uri1 = uri2

\* Typed inputs compared by their properties instead of by identity.
matchesStructural(self, otherInput) ==
  IF isEditorInput(otherInput)
  THEN /\ self.typeId = otherInput.typeId
       /\ self.editorId = otherInput.editorId
       /\ self.resource = otherInput.resource
  ELSE /\ self.editorId # Undefined
       /\ self.editorId = OptionsOverride(otherInput)
       /\ isEqual(self.resource, getCanonicalUri(otherInput))

\* Untyped inputs compared without the resource.
matchesIgnoringResource(self, otherInput) ==
  IF isEditorInput(otherInput)
  THEN self.id = otherInput.id
  ELSE self.editorId # Undefined /\ self.editorId = OptionsOverride(otherInput)

\* Untyped inputs compared without the check that editorId is defined.
matchesWithoutEditorIdCheck(self, otherInput) ==
  IF isEditorInput(otherInput)
  THEN self.id = otherInput.id
  ELSE /\ self.editorId = OptionsOverride(otherInput)
       /\ isEqual(self.resource, getCanonicalUri(otherInput))

\* matches(otherInput: IEditorInput | IUntypedEditorInput): boolean
matches(self, otherInput) ==
  IF isEditorInput(otherInput)
  THEN self.id = otherInput.id
  ELSE LET otherInputEditorId == OptionsOverride(otherInput) IN
       IF self.editorId = Undefined THEN FALSE
       ELSE IF self.editorId # otherInputEditorId THEN FALSE
       ELSE isEqual(self.resource, getCanonicalUri(otherInput))

\* Whether the call raises: only the read of options.override can.
matchesThrows(self, otherInput) ==
  ~isEditorInput(otherInput) /\ OptionsOverride(otherInput) = TypeError

Matches(i, otherInput) ==
  /\ stack = <<>>
  /\ lastCall' = [op |-> "matches", self |-> InputOf(i), other |-> otherInput,
                  threw |-> matchesThrows(InputOf(i), otherInput),
                  result |-> matches(InputOf(i), otherInput)]
  /\ UNCHANGED <<lifeVars, storeVars, listeners, handleVars, stack, fireCount,
                 calls, due, lastFire, inputs, peerDisposed, capabilities,
                 pending, asyncCalls, callerVars>>

\* The owner of the second instance disposes it.
DisposePeer ==
  /\ stack = <<>>
  /\ ~peerDisposed
  /\ peerDisposed' = TRUE
  /\ UNCHANGED <<lifeVars, storeVars, listeners, handleVars, stack, fireCount,
                 calls, due, lastFire, inputs, capabilities, lastCall, pending,
                 asyncCalls, callerVars>>

\* -------------------------------------------------- default operations
\* What a default operation hands back.
ThisInput == [type |-> "input", id |-> 1]
NullModel == [type |-> "null"]
UndefinedResult == [type |-> "undefined"]
VoidResult == [type |-> "void"]

\* The arguments callers pass: the editor group and the optional options.
Groups == {1, 2}
OperationOptions == {Undefined, "options"}
RenameTargets == {"R1", "R2"}

\* UntypedEditorContext of vs/workbench/common/editor.
UntypedEditorContexts == {"Default", "Full"}

\* The bodies of the default operations, on the instance self.
resolve(self) == NullModel

\* A save that hands back no editor.
saveNothing(self, group, options) == UndefinedResult

save(self, group, options) == self

saveAs(self, group, options) == self

revert(self, group, options) == VoidResult

\* A rename that rejects the request.
renameUnsupported(self, group, target) == [type |-> "error"]

rename(self, group, target) == UndefinedResult

\* A copy that clones the input.
copyClone(self) == [type |-> "input", id |-> 2]

copy(self) == self

toUntyped(self, group, context) == UndefinedResult

\* An async method: its body runs when it is called, its promise is
\* delivered to the awaiting caller by a later turn of the event loop.
StartAsync(op, result) ==
  /\ stack = <<>>
  /\ Len(pending) < MaxPending
  /\ asyncCalls < MaxAsyncCalls
  /\ asyncCalls' = asyncCalls + 1
  /\ pending' = Append(pending, [op |-> op, result |-> result])

opFrame ==
  <<storeVars, listeners, handleVars, stack, fireCount, calls, due, lastFire,
    inputs, peerDisposed, capabilities, callerVars>>

\* async resolve(): Promise<IEditorModel | null> { return null; }
Resolve ==
  /\ StartAsync("resolve", resolve(ThisInput))
  /\ UNCHANGED <<lifeVars, opFrame, lastCall>>

\* async save(group, options): Promise<IEditorInput | undefined> { return this; }
Save ==
  /\ \E group \in Groups : \E options \in OperationOptions :
       StartAsync("save", save(ThisInput, group, options))
  /\ UNCHANGED <<lifeVars, opFrame, lastCall>>

\* async saveAs(group, options): Promise<IEditorInput | undefined> { return this; }
SaveAs ==
  /\ \E group \in Groups : \E options \in OperationOptions :
       StartAsync("saveAs", saveAs(ThisInput, group, options))
  /\ UNCHANGED <<lifeVars, opFrame, lastCall>>

\* A revert that brings a disposed input back.
RevertReopens ==
  /\ StartAsync("revert", VoidResult)
  /\ disposed' = FALSE
  /\ UNCHANGED <<disposeCalls, firedBy, willSnapshot, opFrame, lastCall>>

\* async revert(group, options): Promise<void> { }
Revert ==
  /\ \E group \in Groups : \E options \in OperationOptions :
       StartAsync("revert", revert(ThisInput, group, options))
  /\ UNCHANGED <<lifeVars, opFrame, lastCall>>

\* The event loop delivers the oldest settled promise to its awaiter.
Settle ==
  /\ stack = <<>>
  /\ pending # <<>>
  /\ lastCall' = [op |-> Head(pending).op, result |-> Head(pending).result,
                  disposedAtReturn |-> disposed]
  /\ pending' = Tail(pending)
  /\ UNCHANGED <<lifeVars, opFrame, asyncCalls>>

\* A synchronous default operation.
Returned(op, result) ==
  /\ stack = <<>>
  /\ lastCall' = [op |-> op, result |-> result, disposedAtCall |-> disposed]
  /\ UNCHANGED <<lifeVars, opFrame, pending, asyncCalls>>

\* rename(group, target): IMoveResult | undefined { return undefined; }
Rename ==
  \E group \in Groups : \E target \in RenameTargets :
    Returned("rename", rename(ThisInput, group, target))

\* copy(): IEditorInput { return this; }
Copy == Returned("copy", copy(ThisInput))

\* toUntyped(group, context): IUntypedEditorInput | undefined { return undefined; }
ToUntyped ==
  \E context \in UntypedEditorContexts :
    \/ \E group \in Groups : Returned("toUntyped", toUntyped(ThisInput, group, context))
    \/ Returned("toUntyped", toUntyped(ThisInput, Undefined, context))

\* firstOrDefault(array, notFoundValue) of vs/base/common/arrays.
firstOrDefault(array, notFoundValue) ==
  IF Len(array) > 0 THEN array[1] ELSE notFoundValue

\* A choice of the pane listed last.
prefersEditorLast(array) ==
  IF Len(array) > 0 THEN array[Len(array)] ELSE UndefinedResult

\* prefersEditor(editors: T[]): T | undefined { return firstOrDefault(editors); }
prefersEditor(array) == firstOrDefault(array, UndefinedResult)

\* The editor pane descriptors a caller may list, duplicates included.
EditorPanes == {[type |-> "pane", id |-> p] : p \in {"text", "custom", "diff"}}

RECURSIVE ListsUpTo(_, _)
ListsUpTo(S, n) ==
  IF n = 0 THEN {<<>>}
  ELSE LET shorter == ListsUpTo(S, n - 1) IN
       shorter \cup {Append(l, x) : l \in shorter, x \in S}

\* The call reads the caller's array and leaves it as it is.
PrefersEditor ==
  /\ stack = <<>>
  /\ lastCall' = [op |-> "prefersEditor", editors |-> editors,
                  result |-> prefersEditor(editors)]
  /\ UNCHANGED <<lifeVars, opFrame, pending, asyncCalls>>

\* ---------------------------------------------------------- text getters
\* Verbosity of vs/workbench/common/editor; the argument may be left out.
SHORT == "SHORT"
Verbosities == {SHORT, "MEDIUM", "LONG"}

StringResult(str) == [type |-> "string", value |-> str]

\* getName(): string { return `Editor ${this.typeId}`; }
getName(self) == "Editor " \o self.typeId

\* this.getName(): the override of the subclass when it has one.
thisGetName(self) ==
  IF nameOverride = Undefined THEN getName(self) ELSE nameOverride

\* getDescription(verbosity?: Verbosity): string | undefined { return undefined; }
getDescription(self, verbosity) == UndefinedResult

\* A title that spells out the default name instead of asking getName().
getTitleFromTypeId(self, verbosity) == StringResult(getName(self))

\* getTitle(verbosity?: Verbosity): string { return this.getName(); }
getTitle(self, verbosity) == StringResult(thisGetName(self))

\* getAriaLabel(): string { return this.getTitle(Verbosity.SHORT); }
getAriaLabel(self) == getTitle(self, SHORT)

\* A text getter called on the first instance.
TextCall(op, verbosity, result) ==
  /\ stack = <<>>
  /\ lastCall' = [op |-> op, verbosity |-> verbosity, result |-> result]
  /\ UNCHANGED <<lifeVars, opFrame, pending, asyncCalls>>

GetName == TextCall("getName", Undefined, StringResult(thisGetName(InputOf(1))))

GetDescription(verbosity) ==
  TextCall("getDescription", verbosity, getDescription(InputOf(1), verbosity))

GetTitle(verbosity) ==
  TextCall("getTitle", verbosity, getTitle(InputOf(1), verbosity))

GetAriaLabel == TextCall("getAriaLabel", Undefined, getAriaLabel(InputOf(1)))

\* An observer that queries the instance it is told about: isDisposed(),
\* matches(), hasCapability(), typeId and resource, and which of the four
\* channels are still live.
DeliverQuery ==
  /\ Delivering
  /\ stack' = Advanced
  /\ calls' = Invoked
  /\ lastCall' =
       [op |-> "observe", em |-> Top.em, isDisposed |-> isDisposed,
        matches |-> matches(InputOf(1), InputOf(1)),
        threw |-> matchesThrows(InputOf(1), InputOf(1)),
        hasCapability |-> hasCapability(Readonly),
        typeId |-> InputOf(1).typeId, resource |-> InputOf(1).resource,
        live |-> {e \in Emitters : ~emDisposed[e]}]
  /\ UNCHANGED <<lifeVars, storeVars, listeners, handleVars, fireCount, due, lastFire,
                 inputs, peerDisposed, capabilities, pending, asyncCalls, callerVars>>

\* What the workbench hands to matches() on a live instance: the instance
\* itself, the other instance, and a descriptor of its resource.
KnownOthers ==
  {InputOf(1), InputOf(2),
   [kind |-> "untyped", hasOptions |-> TRUE, override |-> "custom",
    resource |-> "R1"]}

Next ==
  \/ \E ev \in Events : Subscribe(ev)
  \/ \E h \in 1 .. MaxHandles : Unsubscribe(h)
  \/ \E t \in Toggles : FireToggle(t)
  \/ Dispose
  \/ DeliverQuiet
  \/ DeliverDispose
  \/ \E h \in 1 .. MaxHandles : DeliverRelease(h)
  \/ FireReturn
  \/ SuperDispose
  \/ \E r \in SubclassResources : Register(r)

Spec == Init /\ [][Next]_vars

\* Every operation of the base class on an instance with observers on its
\* channels, and no subclass firing them.
NextBase ==
  \/ \E ev \in Events : Subscribe(ev)
  \/ Dispose
  \/ DeliverQuiet
  \/ DeliverDispose
  \/ FireReturn
  \/ SuperDispose
  \/ \E o \in KnownOthers : Matches(1, o)
  \/ \E f \in {None, Readonly} : HasCapability(f)
  \/ Resolve
  \/ Save
  \/ SaveAs
  \/ Revert
  \/ Settle
  \/ Rename
  \/ Copy
  \/ ToUntyped
  \/ PrefersEditor
  \/ GetName
  \/ GetDescription(SHORT)
  \/ GetTitle(SHORT)
  \/ GetAriaLabel

SpecBase == Init /\ [][NextBase]_vars

\* Observers that query the instance or dispose it, on the channels a
\* subclass fires and on will-dispose.
NextObserve ==
  \/ \E ev \in Events : Subscribe(ev)
  \/ \E t \in Toggles : FireToggle(t)
  \/ Dispose
  \/ DeliverQuery
  \/ DeliverDispose
  \/ FireReturn
  \/ SuperDispose

SpecObserve == Init /\ [][NextObserve]_vars

\* The async default operations on the event loop, next to observers and
\* dispose() calls.
NextAsync ==
  \/ Resolve
  \/ Save
  \/ SaveAs
  \/ Revert
  \/ Settle
  \/ Subscribe("onWillDispose")
  \/ Dispose
  \/ DeliverQuiet
  \/ DeliverDispose
  \/ FireReturn
  \/ SuperDispose

\* Synchronous code runs to completion: the frame on top of the stack takes
\* its next step.
RunToCompletion == DeliverQuiet \/ DeliverDispose \/ FireReturn \/ SuperDispose

\* The event loop: running code finishes, and a settled promise is delivered
\* to its awaiter once the stack is empty.
SpecAsync ==
  Init /\ [][NextAsync]_vars /\ WF_vars(RunToCompletion) /\ WF_vars(Settle)

\* hasCapability over every mask a capabilities getter may answer.
InitCap ==
  /\ InitLife
  /\ InitCaller
  /\ inputs = DefaultInputs
  /\ capabilities \in Masks

NextCap == \E f \in Masks : HasCapability(f)

SpecCap == InitCap /\ [][NextCap]_vars

\* matches over every pair of instances, in either lifecycle state, and
\* every descriptor.
InitMatch ==
  /\ InitLife
  /\ InitCaller
  /\ inputs \in [InstanceIds -> InputFields]
  /\ capabilities = DefaultCapabilities

NextMatch ==
  \/ \E i \in InstanceIds : \E o \in {InputOf(j) : j \in InstanceIds} : Matches(i, o)
  \/ \E i \in InstanceIds : \E d \in Descriptors : Matches(i, d)
  \/ Dispose
  \/ FireReturn
  \/ SuperDispose
  \/ DisposePeer

SpecMatch == InitMatch /\ [][NextMatch]_vars

\* prefersEditor over every list of panes up to MaxEditors long.
InitPrefers ==
  /\ InitLife
  /\ inputs = DefaultInputs
  /\ capabilities = DefaultCapabilities
  /\ nameOverride = Undefined
  /\ editors \in ListsUpTo(EditorPanes, MaxEditors)

NextPrefers == PrefersEditor

SpecPrefers == InitPrefers /\ [][NextPrefers]_vars

\* The text getters over every typeId, with and without a subclass
\* overriding getName(), at every verbosity, in either lifecycle state.
CustomNames == {"Settings", "Welcome"}

InitText ==
  /\ InitLife
  /\ inputs \in {[DefaultInputs EXCEPT ![1].typeId = t] : t \in TypeIds}
  /\ capabilities = DefaultCapabilities
  /\ editors = <<>>
  /\ nameOverride \in CustomNames \cup {Undefined}

NextText ==
  \/ GetName
  \/ \E v \in Verbosities \cup {Undefined} : GetDescription(v)
  \/ \E v \in Verbosities \cup {Undefined} : GetTitle(v)
  \/ GetAriaLabel
  \/ Dispose
  \/ FireReturn
  \/ SuperDispose

SpecText == InitText /\ [][NextText]_vars

\* ================================================================ claims
WillDispose == "_onWillDispose"

ChangeEmitters == {"_onDidChangeDirty", "_onDidChangeLabel", "_onDidChangeCapabilities"}

DisposeFrames == {i \in DOMAIN stack : stack[i].kind = "dispose"}

\* C1: whatever the number n of dispose() calls begun, sequential or made
\* from inside a will-dispose observer: with n = 0 will-dispose was never
\* fired and isDisposed() is false; with n >= 1 will-dispose was fired exactly
\* once, by the first call, and isDisposed() is true.
C1_WillDisposeFiredOnce ==
  /\ disposeCalls = 0 => (fireCount[WillDispose] = 0 /\ firedBy = 0 /\ ~isDisposed)
  /\ disposeCalls >= 1 => (fireCount[WillDispose] = 1 /\ firedBy = 1 /\ isDisposed)

\* A second dispose() running inside the first one's will-dispose delivery.
C1_Witness ==
  /\ Cardinality(DisposeFrames) = 2
  /\ disposeCalls = 2
  /\ fireCount[WillDispose] = 1
  /\ isDisposed

\* C2: notify before teardown: when the owned resources (the four channels
\* and what subclasses registered) are released, every observer that was
\* subscribed to will-dispose when dispose() was called on the active
\* instance has already been invoked.
C2_NotifyBeforeTeardown ==
  [][(storeDisposed' /\ ~storeDisposed) =>
       \A i \in DOMAIN willSnapshot : calls[willSnapshot[i]] >= 1]_vars

\* C3: the disposed flag starts false, never goes from true back to false,
\* and changes only in a step that begins a dispose() call.
C3_DisposedMonotonic ==
  /\ ~isDisposed
  /\ [][/\ isDisposed => isDisposed'
        /\ isDisposed' # isDisposed => disposeCalls' = disposeCalls + 1]_vars

\* A default operation called on a disposed instance.
C3_Witness ==
  /\ isDisposed
  /\ lastCall.op = "copy"
  /\ lastCall.disposedAtCall
  /\ stack = <<>>

\* C4: a dispose() call that finds the disposed flag already set changes
\* nothing and fires nothing, from its first step to its return: the flag,
\* the live channels, the subscriptions, the owned resources, the deliveries
\* under way and the fire counts stay as they were.
C4_DisposeOnDisposedIsNoOp ==
  [][/\ (isDisposed /\ disposeCalls' = disposeCalls + 1) =>
          UNCHANGED <<disposed, storeVars, listeners, fireCount>>
     /\ (stack # <<>> /\ Top.kind = "dispose" /\ ~Top.notified) =>
          /\ UNCHANGED <<disposed, storeVars, listeners, fireCount>>
          /\ stack' = Pop(stack)]_vars

\* The bits set in a mask.
Bits(n) == {i \in 0 .. CapBits - 1 : (n \div (2 ^ i)) % 2 = 1}

\* C5: for the mask c the capabilities getter answers and every flag f,
\* hasCapability(None) is true iff c is None, and for f other than None
\* hasCapability(f) is true iff c and f share a bit; with the base default
\* (Readonly) hasCapability(Readonly) is true and hasCapability(None) is
\* false; the query leaves the mask as it was.
C5_HasCapability ==
  lastCall.op = "hasCapability" =>
    /\ capabilities = lastCall.mask
    /\ lastCall.capability = None => (lastCall.result <=> lastCall.mask = None)
    /\ lastCall.capability # None =>
         (lastCall.result <=> Bits(lastCall.mask) \cap Bits(lastCall.capability) # {})
    /\ (lastCall.mask = DefaultCapabilities /\ lastCall.capability = Readonly) =>
         lastCall.result
    /\ (lastCall.mask = DefaultCapabilities /\ lastCall.capability = None) =>
         ~lastCall.result

\* The None sentinel asked of an instance with no capability at all.
C5_Witness ==
  /\ lastCall.op = "hasCapability"
  /\ lastCall.capability = None
  /\ lastCall.mask = None
  /\ lastCall.result

TypedCall == lastCall.op = "matches" /\ isEditorInput(lastCall.other)

UntypedCall == lastCall.op = "matches" /\ ~isEditorInput(lastCall.other)

SameFields(a, b) ==
  a.typeId = b.typeId /\ a.editorId = b.editorId /\ a.resource = b.resource

\* C6: for typed instances a and b, active or disposed, a.matches(b) is true
\* iff a and b are the same instance, whatever their typeId, editorId and
\* resource; so a.matches(a) is true and a.matches(b) equals b.matches(a).
C6_TypedMatchIsIdentity ==
  /\ TypedCall =>
       /\ ~lastCall.threw
       /\ lastCall.result <=> lastCall.self.id = lastCall.other.id
  /\ \A i, j \in InstanceIds :
       /\ matches(InputOf(i), InputOf(i))
       /\ matches(InputOf(i), InputOf(j)) <=> matches(InputOf(j), InputOf(i))
       /\ i # j => ~matches(InputOf(i), InputOf(j))

\* Two distinct instances with the same typeId, editorId and resource, the
\* receiver disposed, do not match.
C6_Witness ==
  /\ TypedCall
  /\ lastCall.self.id # lastCall.other.id
  /\ SameFields(lastCall.self, lastCall.other)
  /\ lastCall.self.disposed
  /\ ~lastCall.result

\* C7: for an instance a and an untyped descriptor d, a.matches(d) is true
\* iff a.editorId is defined, a.editorId is d.options.override, and
\* a.resource is the canonical resource of d (two absent resources being
\* the same value).
C7_UntypedMatch ==
  UntypedCall =>
    (lastCall.result <=>
       /\ lastCall.self.editorId # Undefined
       /\ lastCall.other.hasOptions
       /\ lastCall.self.editorId = lastCall.other.override
       /\ lastCall.self.resource = lastCall.other.resource)

\* editorId "custom" and resource R1 against {resource R1, override "custom"}.
C7_Witness ==
  /\ UntypedCall
  /\ lastCall.self.editorId = "custom"
  /\ lastCall.self.resource = "R1"
  /\ lastCall.other.hasOptions
  /\ lastCall.other.override = "custom"
  /\ lastCall.other.resource = "R1"
  /\ lastCall.result

\* C8: an instance whose editorId is undefined matches no untyped
\* descriptor, whether the resources are equal or not and also when the
\* descriptor carries no override.
C8_NoEditorIdNeverMatches ==
  /\ (UntypedCall /\ lastCall.self.editorId = Undefined) => ~lastCall.result
  /\ \A i \in InstanceIds : \A d \in Descriptors :
       inputs[i].editorId = Undefined => ~matches(InputOf(i), d)

\* No editorId, a descriptor without options, and the same resource.
C8_Witness ==
  /\ UntypedCall
  /\ lastCall.self.editorId = Undefined
  /\ ~lastCall.other.hasOptions
  /\ lastCall.self.resource = "R1"
  /\ lastCall.other.resource = "R1"
  /\ ~lastCall.result

\* C9: matches never raises, and it answers false whenever a field untyped
\* matching needs is absent: the descriptor's options, its override, its
\* resource, or the instance's resource.
C9_AbsentFieldIsFalse ==
  /\ lastCall.op = "matches" => ~lastCall.threw
  /\ (/\ UntypedCall
      /\ \/ ~lastCall.other.hasOptions
         \/ lastCall.other.override = Undefined
         \/ lastCall.other.resource = Undefined
         \/ lastCall.self.resource = Undefined) => ~lastCall.result

FireFrames == {i \in DOMAIN stack : stack[i].kind = "fire"}

Ascending(s) == \A i, j \in DOMAIN s : i < j => s[i] < s[j]

C11_BaseFiresOnlyWillDispose ==
  /\ [](/\ \A e \in ChangeEmitters : fireCount[e] = 0
        /\ \A h \in DOMAIN handles :
             EmitterOf(handles[h]) \in ChangeEmitters => calls[h] = 0
        /\ \A i \in DOMAIN stack :
             stack[i].kind = "fire" => stack[i].em = WillDispose)
  /\ [][fireCount' # fireCount =>
         /\ disposeCalls' = disposeCalls + 1
         /\ \A e \in ChangeEmitters : fireCount'[e] = fireCount[e]]_vars

\* A dirty observer and a will-dispose observer, the instance disposed, a
\* default save delivered afterwards: only the will-dispose observer ran.
C11_Witness ==
  /\ \E h \in DOMAIN handles : handles[h] = "onDidChangeDirty" /\ calls[h] = 0
  /\ \E h \in DOMAIN handles : handles[h] = "onWillDispose" /\ calls[h] = 1
  /\ storeDisposed
  /\ lastCall.op = "save"
  /\ lastCall.disposedAtReturn

ReturnsThis == {"save", "saveAs", "copy"}

\* C12: the default save, saveAs and copy hand back the very instance they
\* were called on, whatever the group and options, on an active and on a
\* disposed instance, every time they are called; calling them and having
\* their promise delivered changes neither the disposed flag nor the
\* subscriptions nor the channels.
C12_ReturnsSameInstance ==
  /\ [](/\ lastCall.op \in ReturnsThis => lastCall.result = ThisInput
        /\ \A i \in DOMAIN pending :
             pending[i].op \in ReturnsThis => pending[i].result = ThisInput)
  /\ [][(pending' # pending \/ (lastCall' # lastCall /\ lastCall'.op \in ReturnsThis)) =>
          UNCHANGED <<disposed, storeVars, listeners, handleVars, calls, fireCount>>]_vars

\* The second of two default saveAs calls, delivered on a disposed instance
\* that had an observer.
C12_Witness ==
  /\ asyncCalls = 2
  /\ lastCall.op = "saveAs"
  /\ lastCall.result = ThisInput
  /\ lastCall.disposedAtReturn
  /\ storeDisposed
  /\ handles # <<>>

\* C13: prefersEditor(editors) answers undefined for the empty list and the
\* first element for every non-empty list, duplicates or not, and the
\* caller's list is afterwards what it was.
C13_PrefersFirst ==
  lastCall.op = "prefersEditor" =>
    /\ lastCall.editors = <<>> => lastCall.result = UndefinedResult
    /\ lastCall.editors # <<>> => lastCall.result = lastCall.editors[1]
    /\ editors = lastCall.editors

\* A list whose first pane comes again after a different one.
C13_Witness ==
  /\ lastCall.op = "prefersEditor"
  /\ Len(lastCall.editors) = 3
  /\ lastCall.editors[1] # lastCall.editors[2]
  /\ lastCall.editors[3] = lastCall.editors[1]

\* The result each of the remaining default operations is to yield.
DefaultResult(op) ==
  CASE op = "rename" -> UndefinedResult
    [] op = "toUntyped" -> UndefinedResult
    [] op = "revert" -> VoidResult
    [] op = "resolve" -> NullModel

NeverFail == {"rename", "toUntyped", "revert", "resolve"}

\* C14: on an active and on a disposed instance alike, rename and toUntyped
\* return undefined, revert completes with nothing and resolve completes with
\* a null model; none of them raises or rejects, and none of them changes the
\* disposed flag, the channels or the subscriptions.
C14_DefaultsNeverFail ==
  /\ [](/\ lastCall.op \in NeverFail => lastCall.result = DefaultResult(lastCall.op)
        /\ \A i \in DOMAIN pending :
             /\ pending[i].result.type # "error"
             /\ pending[i].op \in NeverFail =>
                  pending[i].result = DefaultResult(pending[i].op))
  /\ [][(pending' # pending \/ (lastCall' # lastCall /\ lastCall'.op \in NeverFail)) =>
          UNCHANGED <<disposed, storeVars, listeners, handleVars, calls, fireCount>>]_vars

\* A default revert delivered on a disposed instance.
C14_Witness ==
  /\ isDisposed
  /\ storeDisposed
  /\ lastCall.op = "revert"
  /\ lastCall.result = VoidResult
  /\ lastCall.disposedAtReturn
  /\ pending = <<>>

FromName == {"getDescription", "getTitle", "getAriaLabel"}

\* C15: at every verbosity the default getDescription, getTitle and
\* getAriaLabel each answer the text getName() answers, the subclass's own
\* when it overrides getName().
C15_TextFromName ==
  lastCall.op \in FromName =>
    lastCall.result = StringResult(thisGetName(InputOf(1)))

\* C15, amended: at every verbosity the default getTitle and getAriaLabel
\* answer the text getName() answers (the override of the subclass when there
\* is one, "Editor " and the typeId otherwise); the default getDescription
\* answers undefined whatever getName() answers.
C15_TitleFromName ==
  /\ lastCall.op \in {"getName", "getTitle", "getAriaLabel"} =>
       lastCall.result =
         StringResult(IF nameOverride = Undefined
                      THEN "Editor " \o inputs[1].typeId ELSE nameOverride)
  /\ lastCall.op = "getDescription" => lastCall.result = UndefinedResult

\* The aria label of an instance whose subclass overrides getName().
C15_Witness ==
  /\ nameOverride \in CustomNames
  /\ lastCall.op = "getAriaLabel"
  /\ lastCall.result.value = nameOverride

\* C16: every observer invoked during the delivery of will-dispose sees
\* isDisposed() true, finds all four channels live, and gets answers from
\* matches, hasCapability, typeId and resource without an error: the flag is
\* set before the signal is fired, the channels are released after.
C16_ObserversSeeDisposedAndLive ==
  /\ (Delivering /\ Top.em = WillDispose) =>
       (isDisposed /\ \A e \in Emitters : ~emDisposed[e])
  /\ (lastCall.op = "observe" /\ lastCall.em = WillDispose) =>
       /\ lastCall.isDisposed
       /\ lastCall.live = Emitters
       /\ ~lastCall.threw
       /\ lastCall.matches
       /\ lastCall.hasCapability
       /\ lastCall.typeId = inputs[1].typeId
       /\ lastCall.resource = inputs[1].resource

\* A will-dispose observer querying the instance that a dirty-changed
\* observer has just disposed, both deliveries still under way.
C16_Witness ==
  /\ Len(stack) = 3
  /\ stack[1].em = "_onDidChangeDirty"
  /\ stack[3].em = WillDispose
  /\ lastCall.op = "observe"
  /\ lastCall.em = WillDispose

\* Some dispose() call has run to its end.
DisposeReturned == disposeCalls > Cardinality(DisposeFrames)

AsyncOps == {"resolve", "save", "saveAs", "revert"}

AsyncDefault(op) ==
  CASE op = "resolve" -> NullModel
    [] op = "save" -> ThisInput
    [] op = "saveAs" -> ThisInput
    [] op = "revert" -> VoidResult

\* Async default operations delivered to their awaiters so far.
Delivered == asyncCalls - Len(pending)

\* C18: under any interleaving with observers and dispose() calls, the n-th
\* async default operation started is eventually delivered to its awaiter,
\* and what is delivered is its default result: null for resolve, nothing for
\* revert and, for save and saveAs, the same instance, also when dispose() ran
\* in between; delivering it leaves the disposed flag as it is, and the flag
\* never goes back to false.
C18_AsyncDefaultsComplete ==
  /\ \A n \in 1 .. MaxAsyncCalls : (asyncCalls >= n) ~> (Delivered >= n)
  /\ [](/\ lastCall.op \in AsyncOps => lastCall.result = AsyncDefault(lastCall.op)
        /\ \A i \in DOMAIN pending : pending[i].result = AsyncDefault(pending[i].op))
  /\ [][/\ (pending # <<>> /\ pending' = Tail(pending)) =>
             /\ lastCall'.op = Head(pending).op
             /\ lastCall'.result = Head(pending).result
             /\ lastCall'.disposedAtReturn = disposed
             /\ disposed' = disposed
        /\ disposed => disposed']_vars

\* dispose() under way, its will-dispose observer being served, while a
\* default save started before it awaits delivery.
C18_Witness ==
  /\ pending # <<>>
  /\ Head(pending).op = "save"
  /\ disposeCalls = 1
  /\ Cardinality(DisposeFrames) = 1
  /\ Delivering
  /\ isDisposed
====
